---------------------------- MODULE Spec2Model ----------------------------
(***************************************************************************)
(* librarylink (src/main.rs): launch of a UWP application followed by the  *)
(* supervision of its process.                                             *)
(*                                                                         *)
(* The program is single threaded.  Its state is the position in           *)
(* launch_uwp_app / launch_app_with_activation_manager / monitor_process   *)
(* together with their local variables.  The host (the table of processes  *)
(* of the operating system) changes concurrently: processes are created,   *)
(* terminate and are removed between any two steps of the program.         *)
(*                                                                         *)
(* Strings are sequences of one-character strings.                         *)
(*                                                                         *)
(* Assumptions on the host, stated here because the source cannot state    *)
(* them:                                                                   *)
(*  - a process identifier is not given to a second process during one     *)
(*    session;                                                             *)
(*  - the image path and the access rights of a process do not change      *)
(*    while it lives;                                                      *)
(*  - a terminated process may stay enumerated and openable for a while    *)
(*    (status "exiting") before the host removes it;                       *)
(*  - identifier 0 (System Idle Process) is always enumerated and can      *)
(*    never be opened;                                                     *)
(*  - one call of find_process_in_directory sees one state of the host.    *)
(***************************************************************************)
EXTENDS Integers, Sequences, FiniteSets, TLC

\* Largest process identifier the host hands out in the model.
MaxPid == 2

\* main.rs:548  let mut process_ids: [u32; 1024]
Capacity == 1024

\* main.rs:554, 563  mem::size_of::<u32>()
SizeOfU32 == 4

VARIABLES
    procs,               \* host: pid -> process record
    pc,                  \* position of the program
    current_process_id,  \* monitor_process: current_process_id
    target_directory,    \* monitor_process: target_directory
    wait_result,         \* monitor_process: wait_result of this iteration ("none"
                         \* before the wait; the arm taken is read from it); a
                         \* new iteration starts without it
    process_handle,      \* monitor_process: process_handle (<<>> when none is open)
    new_process_id,      \* monitor_process: Some(new_process_id) of the match arms
    launch_result,       \* result of launch_app_with_activation_manager
    process_info,        \* launch_uwp_app: get_process_info(process_id)
    com_depth,           \* COM initialisation count of the thread
    com_inits,           \* successful CoInitializeEx calls of the session
    com_uninits,         \* CoUninitialize calls of the session
    shell_calls,         \* calls of launch_app_with_shell_execute
    monitor_calls,       \* calls of monitor_process
    outcome              \* what launch_uwp_app reported when it returned

vars == <<procs, pc, current_process_id, target_directory, wait_result,
          process_handle, new_process_id, launch_result, process_info,
          com_depth, com_inits, com_uninits, shell_calls, monitor_calls, outcome>>

hostvars == <<procs>>

progvars == <<pc, current_process_id, target_directory, wait_result,
              process_handle, new_process_id, launch_result, process_info,
              com_depth, com_inits, com_uninits, shell_calls, monitor_calls, outcome>>

----------------------------------------------------------------------------
(* Strings *)

Sep == "\\"

Str_A_f == <<"A", Sep, "f">>
Str_a_g == <<"a", Sep, "g">>

\* main.rs:409  "<Unknown>".to_string()
Unknown == <<"<", "U", "n", "k", "n", "o", "w", "n", ">">>

\* Image paths the host gives to processes.
Images == {Str_A_f, Str_a_g}

lower_char(c) ==
    CASE c = "A" -> "a"
      [] c = "B" -> "b"
      [] c = "U" -> "u"
      [] OTHER   -> c

\* str::to_lowercase
to_lowercase(s) == [i \in 1..Len(s) |-> lower_char(s[i])]

\* str::starts_with
starts_with(s, prefix) ==
    /\ Len(prefix) <= Len(s)
    /\ SubSeq(s, 1, Len(prefix)) = prefix

Max(S) == CHOOSE x \in S : \A y \in S : y <= x
Min(S) == CHOOSE x \in S : \A y \in S : x <= y

\* str::rfind('\\'): position (from 1) of the last separator, 0 for None
rfind(s) ==
    LET at == {i \in 1..Len(s) : s[i] = Sep}
    IN  IF at = {} THEN 0 ELSE Max(at)

\* file_name taking the first segment of the path: split('\\').next()
file_name_FirstSegment(path) ==
    LET at == {i \in 1..Len(path) : path[i] = Sep}
    IN  IF at = {} THEN path ELSE SubSeq(path, 1, Min(at) - 1)

\* main.rs:413  path.split('\\').next_back().unwrap_or(&path)
file_name(path) ==
    LET last == rfind(path)
    IN  SubSeq(path, last + 1, Len(path))

\* get_directory_from_path cutting at the first separator: find in place of rfind
get_directory_from_path_FirstSeparator(path) ==
    LET at == {i \in 1..Len(path) : path[i] = Sep}
    IN  IF at # {} THEN SubSeq(path, 1, Min(at) - 1) ELSE path

\* main.rs:422-429
get_directory_from_path(path) ==
    LET last_slash == rfind(path)
    IN  IF last_slash # 0 THEN SubSeq(path, 1, last_slash - 1) ELSE path

----------------------------------------------------------------------------
(* Host *)

Pids == 0..MaxPid

UserPids == 1..MaxPid

\* "all": query and synchronize; "query": query only; "none": no right at all
AccessLevels == {"all", "query", "none"}

NoProcess(st) == [st |-> st, img |-> <<>>, qok |-> FALSE, access |-> "none"]

IdleProcess == [st |-> "run", img |-> <<>>, qok |-> FALSE, access |-> "none"]

\* What a new process can look like: the image query works and gives a path,
\* or it fails (the path is then reported as Unknown).  The image of a process
\* that cannot be opened at all is never asked for.
NewProcesses ==
    {[st |-> "run", img |-> i, qok |-> TRUE, access |-> a] :
        i \in Images, a \in {"all", "query"}}
    \cup {[st |-> "run", img |-> <<>>, qok |-> FALSE, access |-> a] : a \in AccessLevels}

Listed(table, pid) == table[pid].st \in {"run", "exiting"}

\* The process object is signaled once the process has terminated.
Signaled(table, pid) == table[pid].st \in {"exiting", "gone"}

\* OpenProcess(PROCESS_QUERY_LIMITED_INFORMATION, false, pid) succeeds
OpenForQuery(table, pid) ==
    /\ pid \in DOMAIN table
    /\ Listed(table, pid)
    /\ table[pid].access \in {"all", "query"}

\* OpenProcess(PROCESS_SYNCHRONIZE, false, pid) succeeds
OpenForSynchronize(table, pid) ==
    /\ pid \in DOMAIN table
    /\ Listed(table, pid)
    /\ table[pid].access = "all"

\* get_process_info giving None when the image query fails or gives no length
get_process_info_NoneOnQueryFailure(table, process_id) ==
    IF ~OpenForQuery(table, process_id)
    THEN <<>>
    ELSE IF table[process_id].qok /\ Len(table[process_id].img) > 0
         THEN <<[name |-> file_name(table[process_id].img),
                 path |-> table[process_id].img]>>
         ELSE <<>>

\* main.rs:385-420.  <<>> is None, <<info>> is Some(info).
get_process_info(table, process_id) ==
    IF ~OpenForQuery(table, process_id)
    THEN <<>>
    ELSE LET size == Len(table[process_id].img)
             path == IF table[process_id].qok /\ size > 0
                     THEN table[process_id].img
                     ELSE Unknown
             name == file_name(path)
         IN  <<[name |-> name, path |-> path]>>


\* All orders in which the host can deliver the members of S.
RECURSIVE Orders(_)
Orders(S) ==
    IF S = {}
    THEN {<<>>}
    ELSE UNION {{<<first>> \o rest : rest \in Orders(S \ {first})} : first \in S}

\* Number of other processes of the host that are enumerated before the
\* processes of the table; none of them can be opened.  With the processes of
\* the table behind them the list ends before, at, or after the last entry of
\* the buffer.
OtherProcessCounts == {0, Capacity - 2, Capacity - 1}

\* The lists of processes the host can have at the time of an enumeration:
\* `others` foreign identifiers, all larger than MaxPid, then the listed
\* processes of the table in an order of the host's choosing.
ProcessLists(table) ==
    {[others |-> n, ids |-> ids] :
        n \in OtherProcessCounts,
        ids \in Orders({p \in DOMAIN table : Listed(table, p)})}

\* Delivered with everything written, whatever the size of the buffer
Delivered_Untruncated(list, cb) ==
    [ok |-> TRUE,
     others |-> list.others,
     tail |-> list.ids,
     bytes_returned |-> (list.others + Len(list.ids)) * SizeOfU32]

\* What a successful EnumProcesses writes for a list: the list cut to the cb
\* bytes of the buffer.  The buffer process_ids is kept in two parts: the
\* number of foreign identifiers at its front (others) and the identifiers
\* after them (tail).
Delivered(list, cb) ==
    LET total == list.others + Len(list.ids)
        count == IF total * SizeOfU32 <= cb THEN total ELSE cb \div SizeOfU32
        front == IF list.others <= count THEN list.others ELSE count
    IN  [ok |-> TRUE,
         others |-> front,
         tail |-> SubSeq(list.ids, 1, count - front),
         bytes_returned |-> count * SizeOfU32]

\* main.rs:551-557  EnumProcesses(buffer, cb, &mut bytes_returned): what one call
\* can give back.  A failed call reports nothing; a successful call delivers
\* the process list of the host.
EnumProcesses(table, cb) ==
    {[ok |-> FALSE, others |-> 0, tail |-> <<>>, bytes_returned |-> 0]}
    \cup
    {Delivered(list, cb) : list \in ProcessLists(table)}

\* process_ids[i] of an enumeration (i from 1)
process_id_at(enum, i) ==
    IF i <= enum.others THEN MaxPid + i ELSE enum.tail[i - enum.others]

\* matches without the skip of identifier 0 (lines 568-570)
matches_AnyIdentifier(table, process_id, lowercase_target) ==
    LET info == get_process_info(table, process_id)
    IN  /\ info # <<>>
        /\ starts_with(to_lowercase(info[1].path), lowercase_target)

\* main.rs:568-580  the test made on one enumerated identifier
matches(table, process_id, lowercase_target) ==
    /\ process_id # 0
    /\ LET info == get_process_info(table, process_id)
       IN  /\ info # <<>>
           /\ starts_with(to_lowercase(info[1].path), lowercase_target)

\* find_in_enumeration returning the last identifier that passes the test
find_in_enumeration_LastMatch(enum, table, directory) ==
    IF ~enum.ok
    THEN <<>>
    ELSE LET process_count    == enum.bytes_returned \div SizeOfU32
             lowercase_target == to_lowercase(directory)
             hits == {i \in (enum.others + 1)..process_count :
                         matches(table, process_id_at(enum, i), lowercase_target)}
         IN  IF hits = {} THEN <<>> ELSE <<process_id_at(enum, Max(hits))>>

\* main.rs:547-585 after the enumeration: the first identifier, in buffer order,
\* that passes the test.  <<>> is None, <<pid>> is Some(pid).  The leading
\* enum.others entries of the buffer are foreign identifiers: get_process_info
\* gives None for each of them and line 572 goes on to the next entry, so the
\* scan is written from the first entry after them.
find_in_enumeration(enum, table, directory) ==
    IF ~enum.ok
    THEN <<>>
    ELSE LET process_count    == enum.bytes_returned \div SizeOfU32
             lowercase_target == to_lowercase(directory)
             hits == {i \in (enum.others + 1)..process_count :
                         matches(table, process_id_at(enum, i), lowercase_target)}
         IN  IF hits = {} THEN <<>> ELSE <<process_id_at(enum, Min(hits))>>

\* find_process_in_directory never returning the pid monitored so far
find_process_in_directory_ExcludesCurrent(table, directory) ==
    {find_in_enumeration(e, table, directory) :
        e \in EnumProcesses(table, Capacity * SizeOfU32)}
    \ {<<current_process_id>>}

\* main.rs:547-585  every result one call can have in the host state `table`
find_process_in_directory(table, directory) ==
    {find_in_enumeration(e, table, directory) :
        e \in EnumProcesses(table, Capacity * SizeOfU32)}

\* main.rs:475  what WaitForSingleObject(handle, INFINITE) can return: the
\* termination of the process is reported as WAIT_OBJECT_0; the call can fail;
\* any other status is returned only while the process has not terminated.
WaitForSingleObject(table, pid) ==
    IF Signaled(table, pid)
    THEN {"WAIT_OBJECT_0", "WAIT_FAILED"}
    ELSE {"WAIT_FAILED", "WAIT_TIMEOUT"}

----------------------------------------------------------------------------
(* Initial state: nothing launched, no user process yet. *)

NoResult == [tag |-> "none", pid |-> 0]

Init ==
    /\ procs = [p \in Pids |-> IF p = 0 THEN IdleProcess ELSE NoProcess("unborn")]
    /\ pc = "start"
    /\ current_process_id = 0
    /\ target_directory = <<>>
    /\ wait_result = "none"
    /\ process_handle = <<>>
    /\ new_process_id = 0
    /\ launch_result = NoResult
    /\ process_info = <<>>
    /\ com_depth = 0
    /\ com_inits = 0
    /\ com_uninits = 0
    /\ shell_calls = 0
    /\ monitor_calls = 0
    /\ outcome = "none"

----------------------------------------------------------------------------
(* Host actions.  What the host did before the activation and what it does  *)
(* after the program has finished is not observed by the program: the host  *)
(* moves from the activation call until the session is over.                *)

Observed ==
    \/ pc \in {"activate", "open", "wait", "search", "found"}
    \/ pc = "launched" /\ launch_result.tag = "ok"

\* A process starts.
Spawn ==
    /\ Observed
    /\ \E p \in UserPids, new \in NewProcesses :
          /\ procs[p].st = "unborn"
          /\ procs' = [procs EXCEPT ![p] = new]
    /\ UNCHANGED progvars

\* A process terminates: its object becomes signaled.
Exit ==
    /\ Observed
    /\ \E p \in UserPids :
          /\ procs[p].st = "run"
          /\ procs' = [procs EXCEPT ![p].st = "exiting"]
    /\ UNCHANGED progvars

\* The host removes a terminated process from its table.
Reap ==
    /\ Observed
    /\ \E p \in UserPids :
          /\ procs[p].st = "exiting"
          /\ procs' = [procs EXCEPT ![p] = NoProcess("gone")]
    /\ UNCHANGED progvars

----------------------------------------------------------------------------
(* launch_uwp_app, main.rs:200-328 *)

\* main.rs:209-269  AppInfo::GetFromAppUserModelId and app_info.Package()
LookupAppInfo ==
    /\ pc = "start"
    /\ \/ /\ pc' = "com_init"
          /\ UNCHANGED outcome
       \/ /\ pc' = "done"
          /\ outcome' = "AppInfoNotFound"
       \/ /\ pc' = "done"
          /\ outcome' = "PackageNotFound"
    /\ UNCHANGED <<procs, current_process_id, target_directory, wait_result,
                   process_handle, new_process_id, launch_result, process_info,
                   com_depth, com_inits, com_uninits, shell_calls, monitor_calls>>

\* main.rs:333-336  CoInitializeEx
CoInitialize ==
    /\ pc = "com_init"
    /\ \/ /\ com_depth' = com_depth + 1
          /\ com_inits' = com_inits + 1
          /\ pc' = "create"
          /\ UNCHANGED launch_result
       \/ /\ launch_result' = [tag |-> "err", pid |-> 0]
          /\ pc' = "launched"
          /\ UNCHANGED <<com_depth, com_inits>>
    /\ UNCHANGED <<procs, current_process_id, target_directory, wait_result,
                   process_handle, new_process_id, process_info,
                   com_uninits, shell_calls, monitor_calls, outcome>>

\* CreateActivationManager with the CoUninitialize of line 342 left out
CreateActivationManager_NoCleanup ==
    /\ pc = "create"
    /\ \/ /\ pc' = "activate"
          /\ UNCHANGED launch_result
       \/ /\ launch_result' = [tag |-> "err", pid |-> 0]
          /\ pc' = "launched"
    /\ UNCHANGED <<procs, current_process_id, target_directory, wait_result,
                   process_handle, new_process_id, process_info,
                   com_depth, com_inits, com_uninits, shell_calls, monitor_calls, outcome>>

\* main.rs:339-345  CoCreateInstance; its failure runs CoUninitialize and returns
CreateActivationManager ==
    /\ pc = "create"
    /\ \/ /\ pc' = "activate"
          /\ UNCHANGED <<launch_result, com_depth, com_uninits>>
       \/ /\ com_depth' = com_depth - 1
          /\ com_uninits' = com_uninits + 1
          /\ launch_result' = [tag |-> "err", pid |-> 0]
          /\ pc' = "launched"
    /\ UNCHANGED <<procs, current_process_id, target_directory, wait_result,
                   process_handle, new_process_id, process_info,
                   com_inits, shell_calls, monitor_calls, outcome>>

\* main.rs:350-362  ActivateApplication, CoUninitialize, return of the result.
\* A successful activation has started a process and gives its identifier.
ActivateApplication ==
    /\ pc = "activate"
    /\ \/ \E p \in UserPids, new \in NewProcesses :
             /\ procs[p].st = "unborn"
             /\ procs' = [procs EXCEPT ![p] = new]
             /\ launch_result' = [tag |-> "ok", pid |-> p]
       \/ /\ launch_result' = [tag |-> "err", pid |-> 0]
          /\ UNCHANGED procs
    /\ com_depth' = com_depth - 1
    /\ com_uninits' = com_uninits + 1
    /\ pc' = "launched"
    /\ UNCHANGED <<current_process_id, target_directory, wait_result,
                   process_handle, new_process_id, process_info,
                   com_inits, shell_calls, monitor_calls, outcome>>

\* main.rs:276-299  Ok(process_id): resolve the process, derive the directory and
\* call monitor_process, or give up when the process cannot be resolved
LaunchSucceeded ==
    /\ pc = "launched"
    /\ launch_result.tag = "ok"
    /\ LET info == get_process_info(procs, launch_result.pid)
       IN  /\ process_info' = info
           /\ IF info # <<>>
              THEN /\ target_directory' = get_directory_from_path(info[1].path)
                   /\ current_process_id' = launch_result.pid
                   /\ monitor_calls' = monitor_calls + 1
                   /\ pc' = "open"
                   /\ UNCHANGED outcome
              ELSE /\ outcome' = "NoProcessInfo"
                   /\ pc' = "done"
                   /\ UNCHANGED <<target_directory, current_process_id, monitor_calls>>
    /\ UNCHANGED <<procs, wait_result, process_handle, new_process_id,
                   launch_result, com_depth, com_inits, com_uninits, shell_calls>>

\* LaunchFailed going on to monitor_process (on identifier 0) after a fallback
\* that worked
LaunchFailed_Monitors ==
    /\ pc = "launched"
    /\ launch_result.tag = "err"
    /\ shell_calls' = shell_calls + 1
    /\ \/ /\ monitor_calls' = monitor_calls + 1
          /\ pc' = "open"
          /\ UNCHANGED outcome
       \/ /\ outcome' = "LaunchFailure"
          /\ pc' = "done"
          /\ UNCHANGED monitor_calls
    /\ UNCHANGED <<procs, current_process_id, target_directory, wait_result,
                   process_handle, new_process_id, launch_result, process_info,
                   com_depth, com_inits, com_uninits>>

\* main.rs:300-316 and 366-383  Err(e): launch_app_with_shell_execute
LaunchFailed ==
    /\ pc = "launched"
    /\ launch_result.tag = "err"
    /\ shell_calls' = shell_calls + 1
    /\ \/ outcome' = "PartialCapability"
       \/ outcome' = "LaunchFailure"
    /\ pc' = "done"
    /\ UNCHANGED <<procs, current_process_id, target_directory, wait_result,
                   process_handle, new_process_id, launch_result, process_info,
                   com_depth, com_inits, com_uninits, monitor_calls>>

----------------------------------------------------------------------------
(* monitor_process, main.rs:431-545 *)

\* OpenProcess with a `break` in the Err arm in place of the search
OpenProcess_BreakOnFailure ==
    /\ pc = "open"
    /\ IF OpenForSynchronize(procs, current_process_id)
       THEN /\ process_handle' = <<current_process_id>>
            /\ pc' = "wait"
            /\ UNCHANGED outcome
       ELSE /\ pc' = "stopped"
            /\ outcome' = "Stopped"
            /\ UNCHANGED process_handle
    /\ wait_result' = "none"
    /\ UNCHANGED <<procs, current_process_id, target_directory,
                   new_process_id, launch_result, process_info,
                   com_depth, com_inits, com_uninits, shell_calls, monitor_calls>>

\* main.rs:432-467  head of an iteration:
\* OpenProcess(PROCESS_SYNCHRONIZE, false, current_process_id)
OpenProcess ==
    /\ pc = "open"
    /\ IF OpenForSynchronize(procs, current_process_id)
       THEN /\ process_handle' = <<current_process_id>>
            /\ pc' = "wait"
       ELSE /\ pc' = "search"
            /\ UNCHANGED process_handle
    /\ wait_result' = "none"
    /\ UNCHANGED <<procs, current_process_id, target_directory,
                   new_process_id, launch_result, process_info,
                   com_depth, com_inits, com_uninits, shell_calls, monitor_calls, outcome>>

\* WaitReturns with a `break` in the WAIT_FAILED arm
WaitReturns_BreakOnFailure ==
    /\ pc = "wait"
    /\ \E r \in WaitForSingleObject(procs, process_handle[1]) :
          /\ process_handle' = <<>>
          /\ CASE r = "WAIT_OBJECT_0" -> pc' = "search" /\ wait_result' = r
               [] r = "WAIT_FAILED"   -> pc' = "stopped" /\ wait_result' = r
               [] OTHER               -> pc' = "open" /\ wait_result' = r
    /\ UNCHANGED <<procs, current_process_id, target_directory,
                   new_process_id, launch_result, process_info,
                   com_depth, com_inits, com_uninits, shell_calls, monitor_calls, outcome>>

\* WaitReturns with every status other than WAIT_FAILED taken for a termination
WaitReturns_AnyStatusTerminates ==
    /\ pc = "wait"
    /\ \E r \in WaitForSingleObject(procs, process_handle[1]) :
          /\ process_handle' = <<>>
          /\ CASE r = "WAIT_FAILED" -> pc' = "search" /\ wait_result' = r
               [] OTHER             -> pc' = "search" /\ wait_result' = "WAIT_OBJECT_0"
    /\ UNCHANGED <<procs, current_process_id, target_directory,
                   new_process_id, launch_result, process_info,
                   com_depth, com_inits, com_uninits, shell_calls, monitor_calls, outcome>>

\* WaitReturns without the CloseHandle of lines 478-480
WaitReturns_KeepsHandle ==
    /\ pc = "wait"
    /\ \E r \in WaitForSingleObject(procs, process_handle[1]) :
          CASE r = "WAIT_OBJECT_0" -> pc' = "search" /\ wait_result' = r
            [] r = "WAIT_FAILED"   -> pc' = "search" /\ wait_result' = r
            [] OTHER               -> pc' = "open" /\ wait_result' = r
    /\ UNCHANGED <<procs, current_process_id, target_directory, process_handle,
                   new_process_id, launch_result, process_info,
                   com_depth, com_inits, com_uninits, shell_calls, monitor_calls, outcome>>

\* WaitReturns with a successor search in the `_` arm
WaitReturns_SearchOnUnexpected ==
    /\ pc = "wait"
    /\ \E r \in WaitForSingleObject(procs, process_handle[1]) :
          /\ process_handle' = <<>>
          /\ pc' = "search"
          /\ wait_result' = r
    /\ UNCHANGED <<procs, current_process_id, target_directory,
                   new_process_id, launch_result, process_info,
                   com_depth, com_inits, com_uninits, shell_calls, monitor_calls, outcome>>

\* main.rs:475-482 and 537-543  the wait returns, the handle is closed, and the
\* match on wait_result chooses the arm
WaitReturns ==
    /\ pc = "wait"
    /\ \E r \in WaitForSingleObject(procs, process_handle[1]) :
          /\ process_handle' = <<>>
          /\ CASE r = "WAIT_OBJECT_0" -> pc' = "search" /\ wait_result' = r
               [] r = "WAIT_FAILED"   -> pc' = "search" /\ wait_result' = r
               [] OTHER               -> pc' = "open" /\ wait_result' = r
    /\ UNCHANGED <<procs, current_process_id, target_directory,
                   new_process_id, launch_result, process_info,
                   com_depth, com_inits, com_uninits, shell_calls, monitor_calls, outcome>>

\* SearchSuccessor with None starting the loop over instead of leaving it
SearchSuccessor_NeverStops ==
    /\ pc = "search"
    /\ \E found \in find_process_in_directory(procs, target_directory) :
          IF found # <<>>
          THEN /\ new_process_id' = found[1]
               /\ pc' = "found"
               /\ UNCHANGED wait_result
          ELSE /\ pc' = "open"
               /\ wait_result' = "none"
               /\ UNCHANGED new_process_id
    /\ UNCHANGED <<procs, current_process_id, target_directory,
                   process_handle, launch_result, process_info, outcome,
                   com_depth, com_inits, com_uninits, shell_calls, monitor_calls>>

\* SearchSuccessor going on to the next iteration with the pid it found, the
\* get_process_info of lines 450, 493, 521 left out
SearchSuccessor_AdoptsDirectly ==
    /\ pc = "search"
    /\ \E found \in find_process_in_directory(procs, target_directory) :
          IF found # <<>>
          THEN /\ current_process_id' = found[1]
               /\ pc' = "open"
               /\ UNCHANGED outcome
          ELSE /\ pc' = "stopped"
               /\ outcome' = "Stopped"
               /\ UNCHANGED current_process_id
    /\ UNCHANGED <<procs, new_process_id, target_directory, wait_result,
                   process_handle, launch_result, process_info,
                   com_depth, com_inits, com_uninits, shell_calls, monitor_calls>>

\* main.rs:448, 491, 519  match find_process_in_directory(target_directory):
\* Some(new_process_id) goes on, None breaks out of the loop
SearchSuccessor ==
    /\ pc = "search"
    /\ \E found \in find_process_in_directory(procs, target_directory) :
          IF found # <<>>
          THEN /\ new_process_id' = found[1]
               /\ pc' = "found"
               /\ UNCHANGED outcome
          ELSE /\ pc' = "stopped"
               /\ outcome' = "Stopped"
               /\ UNCHANGED new_process_id
    /\ UNCHANGED <<procs, current_process_id, target_directory, wait_result,
                   process_handle, launch_result, process_info,
                   com_depth, com_inits, com_uninits, shell_calls, monitor_calls>>

\* AdoptSuccessor without the assignment to current_process_id
AdoptSuccessor_KeepsPid ==
    /\ pc = "found"
    /\ new_process_id' = 0
    /\ wait_result' = "none"
    /\ pc' = "open"
    /\ UNCHANGED <<procs, current_process_id, target_directory,
                   process_handle, launch_result, process_info,
                   com_depth, com_inits, com_uninits, shell_calls, monitor_calls, outcome>>

\* AdoptSuccessor deriving the directory again from the successor's path
AdoptSuccessor_Recomputes ==
    /\ pc = "found"
    /\ LET info == get_process_info(procs, new_process_id)
       IN  target_directory' = IF info # <<>>
                               THEN get_directory_from_path(info[1].path)
                               ELSE target_directory
    /\ current_process_id' = new_process_id
    /\ new_process_id' = 0
    /\ wait_result' = "none"
    /\ pc' = "open"
    /\ UNCHANGED <<procs, process_handle, launch_result, process_info,
                   com_depth, com_inits, com_uninits, shell_calls, monitor_calls, outcome>>

\* main.rs:449-459, 492-501, 520-529  the new process is resolved for the report
\* and becomes the monitored one; the loop starts over
AdoptSuccessor ==
    /\ pc = "found"
    /\ current_process_id' = new_process_id
    /\ new_process_id' = 0
    /\ wait_result' = "none"
    /\ pc' = "open"
    /\ UNCHANGED <<procs, target_directory,
                   process_handle, launch_result, process_info,
                   com_depth, com_inits, com_uninits, shell_calls, monitor_calls, outcome>>

----------------------------------------------------------------------------

Host == Spawn \/ Exit \/ Reap

Program ==
    \/ LookupAppInfo
    \/ CoInitialize
    \/ CreateActivationManager
    \/ ActivateApplication
    \/ LaunchSucceeded
    \/ LaunchFailed
    \/ OpenProcess
    \/ WaitReturns
    \/ SearchSuccessor
    \/ AdoptSuccessor

Next == Host \/ Program

Spec == Init /\ [][Next]_vars


(***************************************************************************)
(* Fairness, for the claims about what eventually happens.  The program is *)
(* the only thread of its process: a step that does not block is taken.    *)
(* A wait on a process that has terminated returns.  The host removes a    *)
(* terminated process from its table.  Nothing makes a wait on a running   *)
(* process return, and nothing makes the host start or end a process.      *)
(***************************************************************************)
NonBlocking ==
    \/ LookupAppInfo
    \/ CoInitialize
    \/ CreateActivationManager
    \/ ActivateApplication
    \/ LaunchSucceeded
    \/ LaunchFailed
    \/ OpenProcess
    \/ AdoptSuccessor

\* The step of the successor search, whatever the locator returns.  At
\* pc = "search" the program always has a step, and every step it takes there
\* is a step of SearchSuccessor.
SearchStep ==
    /\ pc = "search"
    /\ \E found \in {<<>>} \cup {<<p>> : p \in UserPids} :
          IF found # <<>>
          THEN /\ new_process_id' = found[1]
               /\ pc' = "found"
               /\ UNCHANGED outcome
          ELSE /\ pc' = "stopped"
               /\ outcome' = "Stopped"
               /\ UNCHANGED new_process_id
    /\ UNCHANGED <<procs, current_process_id, target_directory, wait_result,
                   process_handle, launch_result, process_info,
                   com_depth, com_inits, com_uninits, shell_calls, monitor_calls>>

WaitOnTerminated ==
    /\ pc = "wait"
    /\ Signaled(procs, process_handle[1])
    /\ WaitReturns

FairSpec ==
    /\ Spec
    /\ WF_vars(NonBlocking)
    /\ WF_vars(SearchStep)
    /\ WF_vars(WaitOnTerminated)
    /\ WF_vars(Reap)

----------------------------------------------------------------------------
(***************************************************************************)
(* Single calls.  get_process_info and find_process_in_directory are       *)
(* functions of their argument and of the host table.  In CallSpec a       *)
(* behaviour is one call of one of them; the table and the arguments are   *)
(* drawn from bounded sets.  The table is an argument here: every record   *)
(* is allowed for every identifier, identifier 0 included, and the paths   *)
(* include one with two separators and the empty one.                      *)
(* get_process_info is taken step by step, with its local process_handle   *)
(* in the variable of that name, its parameter process_id in               *)
(* current_process_id and the ProcessInfo it builds in process_info.       *)
(***************************************************************************)

Str_a_B_f == <<"a", Sep, "B", Sep, "f">>

CallImages == {Str_A_f, Str_a_B_f}

\* Every record the table of a call holds for one identifier: no process; a
\* process whose image query gives a path or a length of zero; a process whose
\* image query fails; a process that cannot be opened.
AnyProcesses ==
    {NoProcess("gone")}
    \cup {[st |-> "run", img |-> i, qok |-> TRUE, access |-> "query"] :
             i \in CallImages \cup {<<>>}}
    \cup {[st |-> "run", img |-> <<>>, qok |-> FALSE, access |-> a] :
             a \in {"query", "none"}}

Tables == [Pids -> AnyProcesses]

\* Target directories of a call.
Directories == {<<>>, <<"A">>, <<"a", Sep, "b">>, Unknown}

\* Identifiers get_process_info is called with; the last one is in no table.
CallPids == 0..(MaxPid + 1)

CallInit ==
    /\ procs \in Tables
    /\ target_directory \in Directories
    /\ pc = "call"
    /\ current_process_id = 0
    /\ wait_result = "none"
    /\ process_handle = <<>>
    /\ new_process_id = 0
    /\ launch_result = NoResult
    /\ process_info = <<>>
    /\ com_depth = 0
    /\ com_inits = 0
    /\ com_uninits = 0
    /\ shell_calls = 0
    /\ monitor_calls = 0
    /\ outcome = "none"

\* main.rs:388-393  OpenProcess(PROCESS_QUERY_LIMITED_INFORMATION, false,
\* process_id); Err(_) => return None
get_process_info_OpenProcess ==
    /\ pc = "call"
    /\ \E process_id \in CallPids :
          /\ current_process_id' = process_id
          /\ IF OpenForQuery(procs, process_id)
             THEN /\ process_handle' = <<process_id>>
                  /\ pc' = "gpi_query"
                  /\ UNCHANGED process_info
             ELSE /\ process_info' = <<>>
                  /\ pc' = "gpi_return"
                  /\ UNCHANGED process_handle
    /\ UNCHANGED <<procs, target_directory, wait_result, new_process_id,
                   launch_result, com_depth, com_inits, com_uninits,
                   shell_calls, monitor_calls, outcome>>

\* main.rs:396-413  QueryFullProcessImageNameW on the handle, then path and name
get_process_info_Query ==
    /\ pc = "gpi_query"
    /\ LET process_id == process_handle[1]
           result_is_ok == procs[process_id].qok
           size == Len(procs[process_id].img)
           path == IF result_is_ok /\ size > 0
                   THEN SubSeq(procs[process_id].img, 1, size)
                   ELSE Unknown
           name == file_name(path)
       IN  process_info' = <<[name |-> name, path |-> path]>>
    /\ pc' = "gpi_close"
    /\ UNCHANGED <<procs, current_process_id, target_directory, wait_result,
                   process_handle, new_process_id, launch_result,
                   com_depth, com_inits, com_uninits,
                   shell_calls, monitor_calls, outcome>>

\* main.rs:416-418  CloseHandle(process_handle); Some(ProcessInfo { name, path })
get_process_info_CloseHandle ==
    /\ pc = "gpi_close"
    /\ process_handle' = <<>>
    /\ pc' = "gpi_return"
    /\ UNCHANGED <<procs, current_process_id, target_directory, wait_result,
                   new_process_id, launch_result, process_info,
                   com_depth, com_inits, com_uninits,
                   shell_calls, monitor_calls, outcome>>

\* main.rs:547-585  one call of find_process_in_directory(target_directory);
\* Some(process_id) is kept as pc "find_some" with new_process_id, None as pc
\* "find_none"
Call_find_process_in_directory ==
    /\ pc = "call"
    /\ \E found \in find_process_in_directory(procs, target_directory) :
          IF found # <<>>
          THEN /\ new_process_id' = found[1]
               /\ pc' = "find_some"
          ELSE /\ pc' = "find_none"
               /\ UNCHANGED new_process_id
    /\ UNCHANGED <<procs, current_process_id, target_directory, wait_result,
                   process_handle, launch_result, process_info,
                   com_depth, com_inits, com_uninits,
                   shell_calls, monitor_calls, outcome>>

\* main.rs:282-288 and 422-429  get_directory_from_path(&process_info.path) on the
\* path of a ProcessInfo that get_process_info returned; the directory is kept
\* in target_directory, as monitor_process receives it
Call_get_directory_from_path ==
    /\ pc = "gpi_return"
    /\ process_info # <<>>
    /\ target_directory' = get_directory_from_path(process_info[1].path)
    /\ pc' = "dir_return"
    /\ UNCHANGED <<procs, current_process_id, wait_result, process_handle,
                   new_process_id, launch_result, process_info,
                   com_depth, com_inits, com_uninits,
                   shell_calls, monitor_calls, outcome>>

CallNext ==
    \/ get_process_info_OpenProcess
    \/ get_process_info_Query
    \/ get_process_info_CloseHandle
    \/ Call_get_directory_from_path
    \/ Call_find_process_in_directory

CallSpec == CallInit /\ [][CallNext]_vars

\* A behaviour is a session or a single call.
SessionOrCall == (Init \/ CallInit) /\ [][Next \/ CallNext]_vars

----------------------------------------------------------------------------
(* The supervision state of spec section 4.4, read from the program. *)

Monitoring == pc \in {"open", "wait"}

SearchingSuccessor == pc \in {"search", "found"}

Stopped == pc = "stopped"

\* monitor_process has been called
Supervising == monitor_calls > 0

\* Process pid is running, can be resolved and its path starts, without regard
\* to case, with the directory.
LiveCandidate(table, pid, directory) ==
    /\ table[pid].st = "run"
    /\ matches(table, pid, to_lowercase(directory))

----------------------------------------------------------------------------
(* Claims *)

\* C1: the supervision loop reaches Stopped only by a step of the successor
\* search in which find_process_in_directory returned None; no open failure,
\* wait failure or unexpected wait status ends the loop by itself.
C1_StoppedOnlyAfterNotFound ==
    [][(~Stopped /\ Stopped') =>
          /\ pc = "search"
          /\ <<>> \in find_process_in_directory(procs, target_directory)]_vars

\* C1 witness: the loop has ended after a wait that failed.
C1_Witness == Stopped /\ wait_result = "WAIT_FAILED"

\* C2 as claimed: the search ends in Stopped only in a host state in which no
\* running, resolvable, non-zero pid has a path that starts with the target
\* directory (without regard to case).
C2_NotFoundOnlyWithoutCandidate ==
    [][(pc = "search" /\ Stopped') =>
          ~\E p \in UserPids : LiveCandidate(procs, p, target_directory)]_vars

\* C3: once supervision has started, if from some time on no running process
\* is resolvable with a path that starts with the target directory (the first
\* process included: it has terminated), the supervisor eventually reaches
\* Stopped; and Stopped is terminal: once there, the program does not change
\* any more, so it is entered once.
C3_EventuallyStoppedForGood ==
    /\ (<>[](Supervising /\ \A p \in UserPids :
                 ~LiveCandidate(procs, p, target_directory)))
           => <>Stopped
    /\ [][Stopped => UNCHANGED progvars]_vars

\* C3 witness: the first process terminated, the search found nothing and the
\* loop has stopped while still on the first pid.
C3_Witness ==
    /\ Stopped
    /\ wait_result = "WAIT_OBJECT_0"
    /\ current_process_id = launch_result.pid
    /\ \A p \in UserPids : ~LiveCandidate(procs, p, target_directory)

\* C4 as claimed: while the first process has not terminated, the supervisor
\* is in Monitoring on that process.
C4_StaysWhileAlive ==
    (Supervising /\ procs[launch_result.pid].st = "run") =>
        (Monitoring /\ current_process_id = launch_result.pid)

\* C4 as amended: while the monitored process has not terminated, the
\* supervisor leaves Monitoring on it only for a successor search, and only
\* because the open for synchronization failed or the wait failed; it never
\* sees a termination, never stops and never changes the monitored pid.
C4_LeavesOnlyOnFailure ==
    [][(Monitoring /\ procs[current_process_id].st = "run") =>
          \/ Monitoring' /\ current_process_id' = current_process_id
          \/ /\ pc' = "search"
             /\ current_process_id' = current_process_id
             /\ \/ pc = "open" /\ ~OpenForSynchronize(procs, current_process_id)
                \/ pc = "wait" /\ wait_result' = "WAIT_FAILED"]_vars

\* C4 witness: the supervisor is blocked in the wait on the first process,
\* which is still running.
C4_Witness ==
    /\ pc = "wait"
    /\ current_process_id = launch_result.pid
    /\ procs[current_process_id].st = "run"

\* C5: when the wait reports the termination of p the supervisor goes to the
\* successor search with p unchanged, and when that search finds q the next
\* state is Monitoring(q): the sequence is Monitoring(p), SearchingSuccessor,
\* Monitoring(q), without Stopped and without any other pid in between.
C5_TerminationThenSuccessor ==
    [][/\ (pc = "wait" /\ wait_result' = "WAIT_OBJECT_0") =>
              /\ pc' = "search"
              /\ current_process_id' = current_process_id
       /\ (pc = "search" /\ wait_result = "WAIT_OBJECT_0" /\ pc' # "search") =>
              /\ current_process_id' = current_process_id
              /\ \/ pc' = "found"
                    /\ <<new_process_id'>> \in
                           find_process_in_directory(procs, target_directory)
                 \/ Stopped'
                    /\ <<>> \in find_process_in_directory(procs, target_directory)
       /\ (pc = "found" /\ pc' # "found") =>
              /\ pc' = "open"
              /\ current_process_id' = new_process_id]_vars

\* C5 witness: p has terminated and the locator has found another pid q.
C5_Witness ==
    /\ pc = "found"
    /\ wait_result = "WAIT_OBJECT_0"
    /\ new_process_id # current_process_id

\* C6: during the whole supervision the target directory is the directory of
\* the path resolved for the first launched process, whatever process is
\* monitored now.
C6_TargetDirectoryFixed ==
    Supervising =>
        /\ process_info # <<>>
        /\ target_directory = get_directory_from_path(process_info[1].path)

\* C6 witness: the supervisor waits on a successor whose own directory is not
\* the target directory.
C6_Witness ==
    /\ pc = "wait"
    /\ current_process_id # launch_result.pid
    /\ LET info == get_process_info(procs, current_process_id)
       IN  /\ info # <<>>
           /\ get_directory_from_path(info[1].path) # target_directory

\* C7: monitor_process is called only after the primary activation returned a
\* pid; PartialCapability and LaunchFailure are reported after a failed
\* primary activation, without any call of monitor_process.
C7_SupervisionOnlyWithPid ==
    /\ Supervising => launch_result.tag = "ok"
    /\ (Monitoring \/ SearchingSuccessor \/ Stopped) => launch_result.tag = "ok"
    /\ outcome \in {"PartialCapability", "LaunchFailure"} =>
          /\ launch_result.tag = "err"
          /\ monitor_calls = 0
          /\ pc = "done"

\* C7 witness: the fallback worked after the primary activation failed.
C7_Witness == outcome = "PartialCapability"

\* C8 as claimed: once the primary activation has given a pid and
\* launch_uwp_app has acted on it, monitor_process has been called on that pid.
C8_LaunchAlwaysSupervised ==
    (launch_result.tag = "ok" /\ pc # "launched") =>
        /\ monitor_calls = 1
        /\ process_info # <<>>

\* C9 as claimed: when the call has ended, the fallback was attempted exactly
\* once if the primary activation gave no pid, and never if it gave one.
C9_FallbackExactlyOnce ==
    (pc \in {"done", "stopped"}) =>
        shell_calls = (IF launch_result.tag = "ok" THEN 0 ELSE 1)

\* C10: when launch_app_with_activation_manager is not running, COM is not
\* left initialised and every successful CoInitializeEx has had its one
\* CoUninitialize; CoUninitialize is never called more often than
\* CoInitializeEx succeeded.
C10_ComBalanced ==
    /\ com_uninits <= com_inits
    /\ com_depth = com_inits - com_uninits
    /\ pc \notin {"com_init", "create", "activate"} =>
          /\ com_depth = 0
          /\ com_inits = com_uninits

\* C10 witness: the primary launch has returned an error after COM had been
\* initialised.
C10_Witness ==
    /\ pc = "launched"
    /\ launch_result.tag = "err"
    /\ com_inits = 1

\* s starts with d when the case of the letters is not regarded.
StartsWithIgnoringCase(s, d) ==
    /\ Len(d) <= Len(s)
    /\ \A i \in 1..Len(d) : lower_char(s[i]) = lower_char(d[i])

\* C11: whenever find_process_in_directory(d) returns Some(pid), pid is not 0,
\* pid resolves in the table of the call, and the path resolved for it starts
\* with d without regard to case.
C11_FoundHasPrefix ==
    pc = "find_some" =>
        /\ new_process_id # 0
        /\ LET info == get_process_info(procs, new_process_id)
           IN  /\ info # <<>>
               /\ StartsWithIgnoringCase(info[1].path, target_directory)

\* C11 witness: a pid was returned whose path differs from the directory in
\* case, in a table where identifier 0 could be resolved and has the prefix too.
C11_Witness ==
    /\ pc = "find_some"
    /\ target_directory = <<"a", Sep, "b">>
    /\ get_process_info(procs, new_process_id)[1].path = Str_a_B_f
    /\ get_process_info(procs, 0) # <<>>
    /\ get_process_info(procs, 0)[1].path = Str_a_B_f

\* name is the part of path after the last separator of path, and the whole
\* path when path has no separator.
IsFinalSegment(name, path) ==
    /\ Len(name) <= Len(path)
    /\ name = SubSeq(path, Len(path) - Len(name) + 1, Len(path))
    /\ \A i \in 1..Len(name) : name[i] # Sep
    /\ \/ Len(name) = Len(path)
       \/ path[Len(path) - Len(name)] = Sep

\* C12: in every ProcessInfo get_process_info returns, name is the segment of
\* path after the last separator, and the whole path when there is none; the
\* name of the path "<Unknown>" is "<Unknown>".  Stated for the call taken
\* step by step and for the function used by the other steps of the program.
C12_NameIsFinalSegment ==
    /\ (pc = "gpi_return" /\ process_info # <<>>) =>
          /\ IsFinalSegment(process_info[1].name, process_info[1].path)
          /\ process_info[1].path = Unknown => process_info[1].name = Unknown
    /\ \A process_id \in CallPids :
          LET info == get_process_info(procs, process_id)
          IN  info # <<>> =>
                /\ IsFinalSegment(info[1].name, info[1].path)
                /\ info[1].path = Unknown => info[1].name = Unknown

\* C12 witness: a path with two separators was resolved; the name is what
\* follows the second one.
C12_Witness ==
    /\ pc = "gpi_return"
    /\ process_info # <<>>
    /\ process_info[1].path = Str_a_B_f
    /\ process_info[1].name = <<"f">>

\* C13: every call of get_process_info returns, with None or with one
\* ProcessInfo: None exactly when the process cannot be opened for query;
\* otherwise a ProcessInfo whose path is "<Unknown>" exactly when the image
\* query failed or gave a length of zero, and the queried image otherwise.
C13_ResolveTotal ==
    /\ pc \in {"gpi_query", "gpi_close"} =>
          ENABLED (get_process_info_Query \/ get_process_info_CloseHandle)
    /\ pc = "gpi_return" =>
          /\ process_info = get_process_info(procs, current_process_id)
          /\ process_info = <<>> <=> ~OpenForQuery(procs, current_process_id)
          /\ process_info # <<>> =>
                /\ Len(process_info) = 1
                /\ DOMAIN process_info[1] = {"name", "path"}
                /\ LET p == procs[current_process_id]
                   IN  /\ process_info[1].path = Unknown <=>
                              (~p.qok \/ Len(p.img) = 0)
                       /\ process_info[1].path # Unknown =>
                              process_info[1].path = p.img

\* C13 witness: the process could be opened and its image query succeeded with
\* a length of zero; the call returned a ProcessInfo with the path "<Unknown>".
C13_Witness ==
    /\ pc = "gpi_return"
    /\ process_info # <<>>
    /\ process_info[1].path = Unknown
    /\ procs[current_process_id].qok
    /\ procs[current_process_id].img = <<>>

\* C14: a process handle is open only inside the operation that opened it.
\* get_process_info holds its query handle from its OpenProcess to its
\* CloseHandle and has none when it returns, with None or with Some.
\* monitor_process holds its synchronization handle only during the wait: none
\* is open at the head of an iteration, during a successor search, or once
\* the loop has stopped.  Never is more than one handle open.  (The calls of
\* get_process_info made by the other steps are calls of the function shown
\* here step by step.)
C14_HandlesScoped ==
    /\ Len(process_handle) <= 1
    /\ pc \in {"gpi_query", "gpi_close"} => process_handle = <<current_process_id>>
    /\ pc = "gpi_return" => process_handle = <<>>
    /\ pc = "wait" => process_handle = <<current_process_id>>
    /\ pc \in {"open", "search", "found", "stopped"} => process_handle = <<>>
    /\ pc \in {"call", "find_some", "find_none"} => process_handle = <<>>
    /\ pc \in {"start", "com_init", "create", "activate", "launched", "done"} =>
          process_handle = <<>>

\* C14 witness: the wait on an opened process failed and the loop is in the
\* successor search of the WAIT_FAILED arm, the handle closed.
C14_Witness ==
    /\ pc = "search"
    /\ wait_result = "WAIT_FAILED"
    /\ OpenForSynchronize(procs, current_process_id)
    /\ process_handle = <<>>

\* Positions (from 1) in a process list of the host at which a process stands
\* that passes the test of the locator.
MatchingPositions(list, table, directory) ==
    {list.others + k : k \in {j \in 1..Len(list.ids) :
        matches(table, list.ids[j], to_lowercase(directory))}}

\* C15: find_process_in_directory looks at the first 1024 identifiers of the
\* host's process list and at no other.  When the list has at most 1024
\* entries, a process of the list that passes the test is found (None only
\* when there is none).  When it has more, a pid is returned only from a
\* position up to 1024, and None is returned when every process that passes
\* the test stands behind position 1024.  Every call returns None or Some.
C15_FirstCapacityEntries ==
    pc \in {"find_some", "find_none"} =>
      LET results == find_process_in_directory(procs, target_directory)
      IN  /\ (IF pc = "find_some" THEN <<new_process_id>> ELSE <<>>) \in results
          /\ \A list \in ProcessLists(procs) :
                LET total    == list.others + Len(list.ids)
                    matching == MatchingPositions(list, procs, target_directory)
                    found    == find_in_enumeration(
                                    Delivered(list, Capacity * SizeOfU32),
                                    procs, target_directory)
                IN  /\ found \in results
                    /\ total <= Capacity => (found = <<>> <=> matching = {})
                    /\ found # <<>> =>
                          \E i \in matching :
                              /\ i <= Capacity
                              /\ list.ids[i - list.others] = found[1]
                    /\ (\A i \in matching : i > Capacity) => found = <<>>
                    /\ (\E i \in matching : i <= Capacity) => found # <<>>

\* C15 witness: the call returned None in a table that has one process passing
\* the test: standing at position 1025 of a list of 1025 it is not found;
\* standing at position 1024 of a list of 1024 it is.
C15_Witness ==
    /\ pc = "find_none"
    /\ \E list \in ProcessLists(procs) :
          /\ list.others + Len(list.ids) = Capacity + 1
          /\ MatchingPositions(list, procs, target_directory) = {Capacity + 1}
          /\ find_in_enumeration(Delivered(list, Capacity * SizeOfU32),
                                 procs, target_directory) = <<>>
    /\ \E list \in ProcessLists(procs) :
          /\ list.others + Len(list.ids) = Capacity
          /\ MatchingPositions(list, procs, target_directory) = {Capacity}
          /\ find_in_enumeration(Delivered(list, Capacity * SizeOfU32),
                                 procs, target_directory) # <<>>

\* C16: in Monitoring(pid), when the process cannot be opened for
\* synchronization (a running process that refuses the access included) and
\* when the wait fails, the next position of the program is the successor
\* search, with the monitored pid and the target directory unchanged and
\* nothing reported; the step taken there is a call of
\* find_process_in_directory with the target directory.
C16_FailuresLeadToSearch ==
    [][/\ (/\ pc = "open"
           /\ ~OpenForSynchronize(procs, current_process_id)
           /\ progvars' # progvars) =>
              /\ pc' = "search"
              /\ UNCHANGED <<current_process_id, target_directory, outcome>>
       /\ (pc = "wait" /\ wait_result' = "WAIT_FAILED") =>
              /\ pc' = "search"
              /\ UNCHANGED <<current_process_id, target_directory, outcome>>
       /\ (pc = "search" /\ progvars' # progvars) =>
              /\ pc' \in {"found", "stopped"}
              /\ UNCHANGED <<current_process_id, target_directory>>
              /\ (IF pc' = "found" THEN <<new_process_id'>> ELSE <<>>) \in
                     find_process_in_directory(procs, target_directory)]_vars

\* C16 witness: the monitored process is running but cannot be opened for
\* synchronization; the program is in the successor search of the Err arm.
C16_Witness ==
    /\ pc = "search"
    /\ wait_result = "none"
    /\ procs[current_process_id].st = "run"
    /\ procs[current_process_id].access = "query"

\* C17: when the wait returns a status that is neither WAIT_OBJECT_0 nor
\* WAIT_FAILED, the program goes to the head of the loop with the same
\* monitored pid and the same target directory: no search is made, nothing is
\* found, nothing is reported, the loop does not stop.  The step it takes at
\* the head of the loop is the open of that same pid, followed by the wait on
\* it when the open succeeds.
C17_UnexpectedStatusKeepsMonitoring ==
    [][/\ (/\ pc = "wait"
           /\ progvars' # progvars
           /\ wait_result' \notin {"WAIT_OBJECT_0", "WAIT_FAILED"}) =>
              /\ pc' = "open"
              /\ Monitoring'
              /\ process_handle' = <<>>
              /\ UNCHANGED <<current_process_id, target_directory,
                             new_process_id, outcome>>
       /\ (/\ pc = "open"
           /\ wait_result \notin {"none", "WAIT_OBJECT_0", "WAIT_FAILED"}
           /\ progvars' # progvars) =>
              /\ current_process_id' = current_process_id
              /\ IF OpenForSynchronize(procs, current_process_id)
                 THEN pc' = "wait" /\ process_handle' = <<current_process_id>>
                 ELSE pc' = "search"]_vars

\* C17 witness: the wait has returned WAIT_TIMEOUT and the program is at the
\* head of the loop, still on the first process.
C17_Witness ==
    /\ pc = "open"
    /\ wait_result = "WAIT_TIMEOUT"
    /\ current_process_id = launch_result.pid

\* C18: the session is sequential.  A wait begins only at the head of an
\* iteration, on the monitored pid, when no other wait is in progress, and
\* after the first process has been resolved and the target directory derived
\* from its path.  The monitored pid is set only by the step that resolved the
\* launched process (get_process_info and get_directory_from_path before
\* monitor_process is called) and by the step taken after a search that
\* resolves the pid found and adopts it; the wait on a successor can begin
\* only after that step.  While a wait is in progress the program holds one
\* handle and does nothing else.
C18_StrictlySequential ==
    [][/\ (pc' = "wait" /\ pc # "wait") =>
              /\ pc = "open"
              /\ process_handle = <<>>
              /\ process_handle' = <<current_process_id>>
              /\ current_process_id' = current_process_id
              /\ process_info # <<>>
              /\ target_directory = get_directory_from_path(process_info[1].path)
              /\ UNCHANGED <<process_info, target_directory>>
       /\ (current_process_id' # current_process_id) =>
              \/ /\ pc = "launched"
                 /\ pc' = "open"
                 /\ process_info' = get_process_info(procs, launch_result.pid)
                 /\ process_info' # <<>>
                 /\ target_directory' =
                        get_directory_from_path(process_info'[1].path)
                 /\ current_process_id' = launch_result.pid
              \/ /\ pc = "found"
                 /\ pc' = "open"
                 /\ current_process_id' = new_process_id
       /\ (pc = "found" /\ progvars' # progvars) => pc' = "open"
       /\ (pc = "search" /\ progvars' # progvars) => pc' \in {"found", "stopped"}
       /\ pc = "wait" =>
              /\ Len(process_handle) = 1
              /\ progvars' # progvars => process_handle' = <<>>]_vars

\* C18 witness: the program waits on a successor, which it adopted after the
\* search that followed the termination of the process before it.
C18_Witness ==
    /\ pc = "wait"
    /\ process_handle = <<current_process_id>>
    /\ current_process_id # launch_result.pid
    /\ Signaled(procs, launch_result.pid)

\* The identifier is not 0, resolves in the table, and its path starts with the
\* directory without regard to case.
Qualifies(table, process_id, directory) ==
    /\ process_id # 0
    /\ get_process_info(table, process_id) # <<>>
    /\ StartsWithIgnoringCase(get_process_info(table, process_id)[1].path,
                              directory)

\* C19: for every enumeration the host can deliver, find_process_in_directory
\* returns the first identifier of the buffer, in the order delivered, that is
\* not 0, resolves, and whose path starts with the target directory without
\* regard to case; identifier 0 and identifiers that do not resolve in front
\* of it do not end the search; None is returned only when no identifier of
\* the buffer qualifies.  (The foreign identifiers at the front of the buffer
\* are larger than MaxPid, are in no table and never resolve; the positions
\* are taken from the first one after them.)
C19_FirstInEnumerationOrder ==
    pc \in {"find_some", "find_none"} =>
      LET results == find_process_in_directory(procs, target_directory)
      IN  /\ (IF pc = "find_some" THEN <<new_process_id>> ELSE <<>>) \in results
          /\ MaxPid + 1 \notin DOMAIN procs
          /\ \A enum \in EnumProcesses(procs, Capacity * SizeOfU32) :
                LET found == find_in_enumeration(enum, procs, target_directory)
                    count == enum.bytes_returned \div SizeOfU32
                    qualifying == {i \in (enum.others + 1)..count :
                                     Qualifies(procs, process_id_at(enum, i),
                                               target_directory)}
                IN  /\ found \in results
                    /\ IF enum.ok /\ qualifying # {}
                       THEN \E i \in qualifying :
                                /\ \A j \in qualifying : i <= j
                                /\ found = <<process_id_at(enum, i)>>
                       ELSE found = <<>>

\* C19 witness: the pid returned stood third in an enumeration, behind
\* identifier 0 (which could be resolved and has the prefix) and behind an
\* identifier that does not resolve.
C19_Witness ==
    /\ pc = "find_some"
    /\ \E enum \in EnumProcesses(procs, Capacity * SizeOfU32) :
          /\ enum.ok
          /\ enum.others = 0
          /\ Len(enum.tail) >= 3
          /\ enum.tail[1] = 0
          /\ get_process_info(procs, 0) # <<>>
          /\ StartsWithIgnoringCase(get_process_info(procs, 0)[1].path,
                                    target_directory)
          /\ get_process_info(procs, enum.tail[2]) = <<>>
          /\ enum.tail[3] = new_process_id
          /\ find_in_enumeration(enum, procs, target_directory) = <<new_process_id>>

\* C20: the successor search does not leave out the pid that was monitored.
\* Whenever the program is about to search and that pid is still enumerated,
\* still resolves and its path has the target directory as prefix, that pid
\* is among the results find_process_in_directory can return; and a pid that
\* was found is adopted whatever it is, the one monitored before included.
C20_LostPidCanBeFoundAgain ==
    /\ (pc = "search" /\ Listed(procs, current_process_id)
           /\ Qualifies(procs, current_process_id, target_directory)) =>
          <<current_process_id>> \in
              find_process_in_directory(procs, target_directory)
    /\ pc = "found" =>
          ENABLED (/\ AdoptSuccessor
                   /\ Monitoring'
                   /\ current_process_id' = new_process_id)

\* C20 witness: the wait reported the termination of the monitored process,
\* which the host has not removed yet, and the search found that same pid.
C20_Witness ==
    /\ pc = "found"
    /\ wait_result = "WAIT_OBJECT_0"
    /\ new_process_id = current_process_id
    /\ procs[current_process_id].st = "exiting"

\* C21 as claimed: the loop does not spin.  From every state of the
\* supervision the program comes to block in the wait or to stop; no
\* behaviour goes on for ever through failed opens and successful searches
\* without a wait.
C21_NeverBusySpins ==
    Supervising ~> (pc = "wait" \/ Stopped)

\* directory is path up to, and without, the last separator of path, and the
\* whole path when path has no separator.
IsDirectoryOf(directory, path) ==
    /\ starts_with(path, directory)
    /\ \/ /\ directory = path
          /\ \A i \in 1..Len(path) : path[i] # Sep
       \/ /\ Len(directory) < Len(path)
          /\ path[Len(directory) + 1] = Sep
          /\ \A i \in (Len(directory) + 2)..Len(path) : path[i] # Sep

\* C22: the directory get_directory_from_path derives from a path is a prefix
\* of that path: the part in front of the last separator, the whole path when
\* there is none; the path therefore passes the prefix test of the locator
\* against it.  In a session the launched process, as long as it runs,
\* passes the test the locator makes for the target directory.
C22_DirectoryIsPrefix ==
    /\ pc = "dir_return" =>
          /\ IsDirectoryOf(target_directory, process_info[1].path)
          /\ starts_with(to_lowercase(process_info[1].path),
                         to_lowercase(target_directory))
          /\ StartsWithIgnoringCase(process_info[1].path, target_directory)
    /\ (Supervising /\ procs[launch_result.pid].st = "run") =>
          /\ IsDirectoryOf(target_directory, process_info[1].path)
          /\ get_process_info(procs, launch_result.pid) = process_info
          /\ matches(procs, launch_result.pid, to_lowercase(target_directory))

\* C22 witness: the directory of a path with two separators, letters of both
\* cases in it, has been derived.
C22_Witness ==
    /\ pc = "dir_return"
    /\ process_info[1].path = Str_a_B_f
    /\ target_directory = <<"a", Sep, "B">>

=============================================================================
